---- MODULE Spec2Model ----
(***************************************************************************)
(* A model of geo2blender: the raster merge (merge_rasters.py), the chunk  *)
(* export (export_chunks.py) and the pipeline runners (run_example.py).    *)
(* Each operation of the code has its                                      *)
(* own group of variables and its own specification; the variables of the  *)
(* other operations stay idle in it.                                       *)
(***************************************************************************)
EXTENDS Integers, Sequences, FiniteSets, TLC

VARIABLES
    \* write_raster_blocks (merge_rasters.py:72-128)
    src_datasets,   \* the datasets, in input order
    metadata,       \* [height, width] of the output grid
    num_bands,
    block_size,
    nodata_value,   \* the composite nodata value (lines 75-77)
    y_off, x_off,   \* the two range() loops (lines 97-98)
    dst,            \* the output raster: <<band, x, y>> -> value, written pixels only
    windows,        \* the windows handed to dst.write, in order
    block_counter,
    wpc,            \* "idle" | "init" | "blocks" | "returned"
    \* merge_rasters (merge_rasters.py:131-143)
    file_list,      \* the input files, each with the dataset a successful open gives
    src_paths,      \* the handles rasterio.open returned (line 135)
    reprojected,    \* the handles reproject_rasters_to_crs returned (line 136)
    open_handles,   \* the dataset handles that are open now
    mpc,            \* "open" | "reproject" | "write" | "returned" | "raised"
    merge_error,    \* the exception merge_rasters ended with, or None
    \* compute_merge_metadata (merge_rasters.py:44-69), as a function of its arguments
    meta_datasets,
    scale_factor,   \* <<numerator, denominator>>
    merge_metadata, \* its result, or None
    \* rescale_dsm_global (export_chunks.py:8-32), as a function of the raster
    dsm_data,       \* band 1 of the raster, a sequence of pixels
    src_nodata,     \* its nodata sentinel, or None
    rescaled,       \* the result [scaled_dsm, nodata_value, error], or None
    \* generate_chunks (export_chunks.py:53-112)
    dsm, satellite, \* the two mosaics: [crs, bounds, nodata, ...]
    n_rows, n_cols,
    row, col,       \* the two range() loops (lines 82-83)
    scaled_dsm,     \* the buffer rescale_dsm_global returned (line 67)
    dsm_nodata,
    cells,          \* the geographic cell of every (row, col) processed
    files,          \* the file names written to output_folder, in order
    io_log,         \* the I/O done so far, in order
    gpc,            \* "start" | "rescale" | "open" | "cells" | "returned" | "raised"
    chunk_error,
    \* the pipeline runners (examples/run_example.py, scripts/run_example.py)
    runner,         \* which of the two scripts runs
    found,          \* the number of files glob found, per category
    merged_path,    \* the variables merged_dsm_path and merged_satellite_path
    on_disk,        \* the categories whose merged mosaic is in PROCESSING_DIR
    produced,       \* the categories whose mosaic this run has merged
    run_log,        \* the stages the run has entered, in order
    rpc,            \* the runner's position
    run_error       \* the exception the run ended with, or None

blockVars == <<src_datasets, metadata, num_bands, block_size, nodata_value,
               y_off, x_off, dst, windows, block_counter, wpc>>
mergeVars == <<file_list, src_paths, reprojected, open_handles, mpc, merge_error>>
metaVars == <<meta_datasets, scale_factor, merge_metadata>>
rescaleVars == <<dsm_data, src_nodata, rescaled>>
chunkVars == <<dsm, satellite, n_rows, n_cols, row, col, scaled_dsm, dsm_nodata,
               cells, files, io_log, gpc, chunk_error>>

runnerVars == <<runner, found, merged_path, on_disk, produced, run_log, rpc, run_error>>

vars == <<blockVars, mergeVars, metaVars, rescaleVars, chunkVars, runnerVars>>

Min(a, b) == IF a < b THEN a ELSE b
Max(a, b) == IF a > b THEN a ELSE b
SetMax(S) == CHOOSE m \in S : \A n \in S : n <= m
SetMin(S) == CHOOSE m \in S : \A n \in S : m <= n

\* An optional value: None, or Some(v).
None == <<>>
Some(v) == <<v>>

(***************************************************************************)
(* Bounds of the model.                                                    *)
(***************************************************************************)
MaxHeight == 3    \* the output height is in 1..MaxHeight
MaxWidth == 3     \* the output width is in 1..MaxWidth
MaxBlock == 2     \* block_size is in 1..MaxBlock
MaxSrc == 2       \* 1..MaxSrc datasets are merged

(***************************************************************************)
(* Program constants.                                                      *)
(***************************************************************************)
DSM_BANDS == 1
SATELLITE_BANDS == 3
DefaultNodataSingle == -9999
DefaultNodataMulti == 0

(***************************************************************************)
(* write_raster_blocks                                                     *)
(***************************************************************************)

\* The reprojection service is external.  A dataset of the model covers the
\* output columns lo..hi-1; its resampled value there is a value of its own,
\* and everywhere else the service leaves dst_nodata (line 117).
SrcValue(src, band, p) == src.id * 100 + band * 10 + p[2] * 3 + p[1]

Resampled(src, band, p, nd) ==
    IF src.lo <= p[1] /\ p[1] < src.hi THEN SrcValue(src, band, p) ELSE nd

\* lines 75-77
CompositeNodata(srcs, bands) ==
    IF srcs[1].nodata # None THEN srcs[1].nodata[1]
    ELSE IF bands = 1 THEN DefaultNodataSingle ELSE DefaultNodataMulti

\* lines 99-100: h = min(block_size, height - y_off)
\* (the extent without the clamp at the grid's edge, a faulty variant)
BlockExtentNoClamp(bs, total, off) == bs
BlockExtent(bs, total, off) == Min(bs, total - off)

\* line 101: Window(x_off, y_off, w, h)
Window(xo, yo, w, h) == [x_off |-> xo, y_off |-> yo, w |-> w, h |-> h]

WindowPixels(win) ==
    {<<x, y>> : x \in win.x_off .. (win.x_off + win.w - 1),
                y \in win.y_off .. (win.y_off + win.h - 1)}

\* lines 107-118: temp filled with nodata, then reprojected into
Reproject(src, band, win, nd) ==
    [p \in WindowPixels(win) |-> Resampled(src, band, p, nd)]

\* lines 119-120: mask = temp != nodata_value; block_data[band-1, mask] = temp[mask]
\* (first-wins compositing, a faulty variant: only empty pixels are overwritten)
OverwriteOnlyEmpty(band_data, temp, nd) ==
    [p \in DOMAIN band_data |->
        IF temp[p] # nd /\ band_data[p] = nd THEN temp[p] ELSE band_data[p]]
OverwriteValid(band_data, temp, nd) ==
    [p \in DOMAIN band_data |-> IF temp[p] # nd THEN temp[p] ELSE band_data[p]]

\* lines 105-120: for src in src_datasets: for band in 1..num_bands
RECURSIVE CompositeSources(_, _, _, _, _)
CompositeSources(block_data, srcs, k, win, nd) ==
    IF k > Len(srcs) THEN block_data
    ELSE CompositeSources(
            [b \in DOMAIN block_data |->
                OverwriteValid(block_data[b], Reproject(srcs[k], b, win, nd), nd)],
            srcs, k + 1, win, nd)

\* line 103: np.full((num_bands, h, w), nodata_value)
EmptyBlock(bands, win, nd) == [b \in 1..bands |-> [p \in WindowPixels(win) |-> nd]]

\* line 122: dst.write(block_data, window=window)
WriteWindow(raster, block_data, win) ==
    LET new == {<<b, p[1], p[2]>> : b \in DOMAIN block_data, p \in WindowPixels(win)}
    IN  [q \in (DOMAIN raster) \cup new |->
            IF q \in new THEN block_data[q[1]][<<q[2], q[3]>>] ELSE raster[q]]

\* the non-empty column ranges lo..hi-1 a dataset may cover
Footprints(width) == {<<lo, hi>> \in (0..width) \X (0..width) : lo < hi}

DatasetLists(width) ==
    UNION {[1..n -> {[id |-> 0, nodata |-> nd, lo |-> f[1], hi |-> f[2]] :
                        nd \in {None, Some(255)}, f \in Footprints(width)}] : n \in 1..MaxSrc}

\* every dataset gets its position as its identity
Numbered(srcs) == [k \in DOMAIN srcs |-> [srcs[k] EXCEPT !.id = k]]

\* The state of an operation that is not running.
BlocksIdle ==
    /\ src_datasets = <<>>
    /\ metadata = [height |-> 0, width |-> 0]
    /\ num_bands = 0
    /\ block_size = 0
    /\ nodata_value = 0
    /\ y_off = 0
    /\ x_off = 0
    /\ dst = <<>>
    /\ windows = <<>>
    /\ block_counter = 0
    /\ wpc = "idle"

MergeIdle ==
    /\ file_list = <<>>
    /\ src_paths = <<>>
    /\ reprojected = <<>>
    /\ open_handles = {}
    /\ mpc = "write"
    /\ merge_error = None

MetaIdle ==
    /\ meta_datasets = <<>>
    /\ scale_factor = <<1, 1>>
    /\ merge_metadata = None

RescaleIdle ==
    /\ dsm_data = <<>>
    /\ src_nodata = None
    /\ rescaled = None

ChunksIdle ==
    /\ dsm = None
    /\ satellite = None
    /\ n_rows = 0
    /\ n_cols = 0
    /\ row = 0
    /\ col = 0
    /\ scaled_dsm = None
    /\ dsm_nodata = None
    /\ cells = <<>>
    /\ files = <<>>
    /\ io_log = <<>>
    /\ gpc = "idle"
    /\ chunk_error = None

RunnerIdle ==
    /\ runner = "none"
    /\ found = <<>>
    /\ merged_path = <<>>
    /\ on_disk = {}
    /\ produced = {}
    /\ run_log = <<>>
    /\ rpc = "idle"
    /\ run_error = None

\* write_raster_blocks called on its own, with its arguments
BlocksInit ==
    /\ MergeIdle /\ MetaIdle /\ RescaleIdle /\ ChunksIdle /\ RunnerIdle
    /\ metadata \in [height : 1..MaxHeight, width : 1..MaxWidth]
    /\ block_size \in 1..MaxBlock
    /\ num_bands \in {DSM_BANDS, SATELLITE_BANDS}
    /\ \E l \in DatasetLists(metadata.width) :
          /\ src_datasets = Numbered(l)
          /\ \A k \in DOMAIN l : k > 1 => l[k].nodata = l[1].nodata
          \* the grid is the union of the datasets' bounds (lines 47-59)
          /\ \E k \in DOMAIN l : l[k].lo = 0
          /\ \E k \in DOMAIN l : l[k].hi = metadata.width
    /\ nodata_value = 0
    /\ y_off = 0
    /\ x_off = 0
    /\ dst = <<>>
    /\ windows = <<>>
    /\ block_counter = 0
    /\ wpc = "init"

\* lines 75-96: the nodata value, the output metadata, the output file opened
OpenOutput ==
    /\ mpc = "write"
    /\ wpc = "init"
    /\ nodata_value' = CompositeNodata(src_datasets, num_bands)
    /\ wpc' = "blocks"
    /\ UNCHANGED <<src_datasets, metadata, num_bands, block_size, y_off, x_off,
                   dst, windows, block_counter>>
    /\ UNCHANGED <<mergeVars, metaVars, rescaleVars, chunkVars, runnerVars>>

\* lines 97-125: one iteration of the block loops
WriteBlock ==
    /\ mpc = "write"
    /\ wpc = "blocks"
    /\ y_off < metadata.height
    /\ LET h == BlockExtent(block_size, metadata.height, y_off)
           w == BlockExtent(block_size, metadata.width, x_off)
           window == Window(x_off, y_off, w, h)
           block_data == CompositeSources(EmptyBlock(num_bands, window, nodata_value),
                                          src_datasets, 1, window, nodata_value)
       IN  /\ dst' = WriteWindow(dst, block_data, window)
           /\ windows' = Append(windows, window)
    /\ block_counter' = block_counter + 1
    /\ IF x_off + block_size < metadata.width
          THEN /\ x_off' = x_off + block_size
               /\ y_off' = y_off
          ELSE /\ x_off' = 0
               /\ y_off' = y_off + block_size
    /\ UNCHANGED <<src_datasets, metadata, num_bands, block_size, nodata_value, wpc>>
    /\ UNCHANGED <<mergeVars, metaVars, rescaleVars, chunkVars, runnerVars>>

\* lines 127-128: the loops are over, the output is closed and its path returned
ReturnOutput ==
    /\ mpc = "write"
    /\ wpc = "blocks"
    /\ y_off >= metadata.height
    /\ wpc' = "returned"
    /\ UNCHANGED <<src_datasets, metadata, num_bands, block_size, nodata_value,
                   y_off, x_off, dst, windows, block_counter>>
    /\ UNCHANGED <<mergeVars, metaVars, rescaleVars, chunkVars, runnerVars>>

BlocksNext == OpenOutput \/ WriteBlock \/ ReturnOutput

SpecBlocks == BlocksInit /\ [][BlocksNext]_vars

(***************************************************************************)
(* Claims about write_raster_blocks                                        *)
(***************************************************************************)

\* the datasets whose resampled value at pixel p of band b is not nodata
ValidSources(b, p) ==
    {k \in DOMAIN src_datasets :
        Resampled(src_datasets[k], b, p, nodata_value) # nodata_value}

\* C1: every written pixel of every band holds the resampled value of the LAST
\* dataset, in input order, whose value there is not the composite nodata
\* value, and the composite nodata value when no dataset is valid there.
C1_LastValidWins ==
    \A q \in DOMAIN dst :
        LET p == <<q[2], q[3]>>
            S == ValidSources(q[1], p)
        IN  dst[q] = IF S = {} THEN nodata_value
                     ELSE Resampled(src_datasets[SetMax(S)], q[1], p, nodata_value)

\* the merge is over, some pixel both datasets cover holds the later one's
\* value, which differs from the earlier one's, and some pixel only the
\* earlier one covers holds the earlier one's
C1_Witness ==
    /\ wpc = "returned"
    /\ Len(windows) > 1
    /\ \E q \in DOMAIN dst :
          /\ ValidSources(q[1], <<q[2], q[3]>>) = {1, 2}
          /\ dst[q] = SrcValue(src_datasets[2], q[1], <<q[2], q[3]>>)
          /\ dst[q] # SrcValue(src_datasets[1], q[1], <<q[2], q[3]>>)
    /\ \E q \in DOMAIN dst :
          /\ ValidSources(q[1], <<q[2], q[3]>>) = {1}
          /\ dst[q] = SrcValue(src_datasets[1], q[1], <<q[2], q[3]>>)

Grid == {<<x, y>> : x \in 0..(metadata.width - 1), y \in 0..(metadata.height - 1)}

\* C9: the written windows lie inside the grid, are at most block_size x
\* block_size, are pairwise disjoint and in row-major order, and once the
\* operation has returned every pixel of the grid lies in one of them.
C9_WindowsPartition ==
    /\ \A i \in DOMAIN windows :
          /\ WindowPixels(windows[i]) \subseteq Grid
          /\ windows[i].w >= 1 /\ windows[i].w <= block_size
          /\ windows[i].h >= 1 /\ windows[i].h <= block_size
    /\ \A i, j \in DOMAIN windows :
          i < j => /\ WindowPixels(windows[i]) \cap WindowPixels(windows[j]) = {}
                   /\ \/ windows[i].y_off < windows[j].y_off
                      \/ /\ windows[i].y_off = windows[j].y_off
                         /\ windows[i].x_off < windows[j].x_off
    /\ wpc = "returned" =>
          \A p \in Grid : Cardinality({i \in DOMAIN windows : p \in WindowPixels(windows[i])}) = 1

\* a finished merge of several blocks, the last column and row of them narrower
\* than block_size
C9_Witness ==
    /\ wpc = "returned"
    /\ Len(windows) >= 4
    /\ \E i \in DOMAIN windows : windows[i].w < block_size
    /\ \E i, j \in DOMAIN windows : windows[i].y_off < windows[j].y_off

(***************************************************************************)
(* compute_merge_metadata                                                  *)
(***************************************************************************)

\* Coordinates are integers; a resolution or a scale factor is an exact
\* fraction <<numerator, denominator>> with a positive denominator.
RECURSIVE Gcd(_, _)
Gcd(a, b) == IF b = 0 THEN a ELSE Gcd(b, a % b)
Abs(a) == IF a < 0 THEN -a ELSE a
Frac(n, d) ==
    LET g == Gcd(Abs(n), Abs(d))
        sgn == IF d < 0 THEN -1 ELSE 1
    IN  <<sgn * (n \div g), sgn * (d \div g)>>
FracDiv(p, q) == Frac(p[1] * q[2], p[2] * q[1])

\* np.ceil of a fraction (lines 57-58)
FloorFrac(q) == q[1] \div q[2]
\* (rounding down instead of up, a faulty variant)
CeilFracRoundedDown(q) == q[1] \div q[2]
CeilFrac(q) == -((-q[1]) \div q[2])

Bounds(l, b, r, t) == [left |-> l, bottom |-> b, right |-> r, top |-> t]

\* lines 44-69 (the affine transform of from_bounds is its origin and pixel size)
ComputeMergeMetadata(srcs, scale) ==
    LET bounds == {srcs[k].bounds : k \in DOMAIN srcs}
        minx == SetMin({b.left : b \in bounds})
        miny == SetMin({b.bottom : b \in bounds})
        maxx == SetMax({b.right : b \in bounds})
        maxy == SetMax({b.top : b \in bounds})
        ref == srcs[1]
        target_res == FracDiv(Frac(ref.res[1], 1), scale)
        width == CeilFrac(FracDiv(Frac(maxx - minx, 1), target_res))
        height == CeilFrac(FracDiv(Frac(maxy - miny, 1), target_res))
    IN  [transform |-> [west |-> minx, north |-> maxy,
                        xsize |-> <<maxx - minx, width>>,
                        ysize |-> <<miny - maxy, height>>],
         crs |-> ref.crs,
         dtype |-> ref.dtype,
         res |-> target_res,
         width |-> width,
         height |-> height,
         bounds |-> <<minx, miny, maxx, maxy>>]

\* The datasets the function is applied to: square tiles of side 1 or 2 with
\* their origin in 0..MaxOrigin, and the two scenarios of the specification.
MaxOrigin == 1

Tile(x, y, side, res, kind) ==
    [bounds |-> Bounds(x, y, x + side, y + side), res |-> <<res, res>>,
     crs |-> kind[1], dtype |-> kind[2]]

Kinds == {<<"EPSG:25830", "float32">>, <<"EPSG:4326", "uint8">>}

Tiles(kinds) ==
    {Tile(x, y, side, res, kind) :
        x \in 0..MaxOrigin, y \in 0..MaxOrigin, side \in {1, 2}, res \in {1, 2},
        kind \in kinds}

ScaleFactors == {<<1, 1>>, <<1, 2>>, <<2, 1>>}

\* two 100x100 tiles of resolution 1, the second 50 pixels to the right
ScenarioOverlap ==
    <<Tile(0, 0, 100, 1, <<"EPSG:25830", "float32">>),
      Tile(50, 0, 100, 1, <<"EPSG:25830", "float32">>)>>
\* one 1000x1000 tile of resolution 1
ScenarioDownsample == <<Tile(0, 0, 1000, 1, <<"EPSG:25830", "uint8">>)>>

MetaInit ==
    /\ BlocksIdle /\ MergeIdle /\ RescaleIdle /\ ChunksIdle /\ RunnerIdle
    /\ merge_metadata = None
    /\ \/ /\ scale_factor \in ScaleFactors
          /\ \E first \in Tiles(Kinds) : \E n \in 1..MaxSrc :
                \E rest \in [2..n -> Tiles({<<first.crs, "float32">>})] :
                   meta_datasets = [k \in 1..n |-> IF k = 1 THEN first ELSE rest[k]]
       \/ /\ scale_factor \in ScaleFactors
          /\ meta_datasets \in {ScenarioOverlap, ScenarioDownsample}

\* the call
ComputeMetadata ==
    /\ merge_metadata = None
    /\ meta_datasets # <<>>
    /\ merge_metadata' = Some(ComputeMergeMetadata(meta_datasets, scale_factor))
    /\ UNCHANGED <<meta_datasets, scale_factor>>
    /\ UNCHANGED <<blockVars, mergeVars, rescaleVars, chunkVars, runnerVars>>

MetaNext == ComputeMetadata

SpecMeta == MetaInit /\ [][MetaNext]_vars

\* C10: the metadata's bounds are the union of the inputs' bounds, its
\* resolution is the first dataset's divided by scale_factor, its width and
\* height are the least whole numbers of pixels of that resolution covering
\* the extent, and its coordinate system and datatype are the first
\* dataset's; the two 100x100 tiles give 150x100, and the 1000x1000 tile at
\* scale factor 0.5 gives resolution 2 and 500x500.
C10_MergeMetadata ==
    merge_metadata # None =>
        LET m == merge_metadata[1]
            D == DOMAIN meta_datasets
            b(k) == meta_datasets[k].bounds
            ext_x == m.bounds[3] - m.bounds[1]
            ext_y == m.bounds[4] - m.bounds[2]
        IN  /\ \A k \in D : /\ m.bounds[1] <= b(k).left /\ m.bounds[2] <= b(k).bottom
                            /\ m.bounds[3] >= b(k).right /\ m.bounds[4] >= b(k).top
            /\ \E k \in D : m.bounds[1] = b(k).left
            /\ \E k \in D : m.bounds[2] = b(k).bottom
            /\ \E k \in D : m.bounds[3] = b(k).right
            /\ \E k \in D : m.bounds[4] = b(k).top
            \* res * scale_factor = the first dataset's resolution
            /\ m.res[2] > 0
            /\ m.res[1] * scale_factor[1] = meta_datasets[1].res[1] * m.res[2] * scale_factor[2]
            \* width = ceil(extent / res): (width - 1) * res < extent <= width * res
            /\ m.width * m.res[1] >= ext_x * m.res[2]
            /\ (m.width - 1) * m.res[1] < ext_x * m.res[2]
            /\ m.height * m.res[1] >= ext_y * m.res[2]
            /\ (m.height - 1) * m.res[1] < ext_y * m.res[2]
            /\ m.crs = meta_datasets[1].crs
            /\ m.dtype = meta_datasets[1].dtype
            /\ (meta_datasets = ScenarioOverlap /\ scale_factor = <<1, 1>>)
                  => m.width = 150 /\ m.height = 100
            /\ (meta_datasets = ScenarioDownsample /\ scale_factor = <<1, 2>>)
                  => m.res = <<2, 1>> /\ m.width = 500 /\ m.height = 500

\* the metadata of the two overlapping 100x100 tiles has been computed
C10_Witness ==
    /\ merge_metadata # None
    /\ meta_datasets = ScenarioOverlap
    /\ scale_factor = <<1, 1>>
    /\ merge_metadata[1].width = 150
    /\ merge_metadata[1].bounds = <<0, 0, 150, 100>>

(***************************************************************************)
(* rescale_dsm_global                                                      *)
(***************************************************************************)

UINT16_MAX == 65535
MaxPixels == 3    \* the raster has 1..MaxPixels pixels

\* line 21: valid_mask = dsm_data != nodata_value (all True against None)
IsValid(v, nodata) == nodata = None \/ v # nodata[1]

\* lines 22-25: the valid values, the others being NaN to nanmin and nanmax
ValidData(data, nodata) == {data[i] : i \in {j \in DOMAIN data : IsValid(data[j], nodata)}}

\* lines 29-30: (value - min) / (max - min) * 65535, cut to an integer by
\* astype(np.uint16), for max > min
\* (scaling to 8 bits, a faulty variant)
ScaleValue8Bit(v, lo, hi) == ((v - lo) * 255) \div (hi - lo)
ScaleValue(v, lo, hi) == ((v - lo) * UINT16_MAX) \div (hi - lo)

\* lines 16-32.  With no valid pixel global_min and global_max are NaN, and
\* with global_max = global_min every quotient is 0/0 = NaN: astype(np.uint16)
\* of a NaN is not defined, and nan_cast is what the build makes of it.  No
\* path of the function raises.
RescaleDsmGlobal(data, nodata, nan_cast) ==
    LET valid == ValidData(data, nodata)
        global_min == SetMin(valid)
        global_max == SetMax(valid)
        degenerate == valid = {} \/ global_min = global_max
    IN  [scaled_dsm |->
            [i \in DOMAIN data |->
                IF degenerate THEN nan_cast
                ELSE ScaleValue(IF IsValid(data[i], nodata) THEN data[i] ELSE global_min,
                                global_min, global_max)],
         nodata_value |-> nodata,
         raised |-> None]

\* what a NaN may become as a uint16
NanCastOutcomes == {0, UINT16_MAX}

Elevations == {-9999, 0, 1, 2}
Sentinels == {None, Some(-9999), Some(0)}

RescaleInit ==
    /\ BlocksIdle /\ MergeIdle /\ MetaIdle /\ ChunksIdle /\ RunnerIdle
    /\ \E n \in 1..MaxPixels : dsm_data \in [1..n -> Elevations]
    /\ src_nodata \in Sentinels
    /\ rescaled = None

\* the call
RescaleGlobal ==
    /\ rescaled = None
    /\ dsm_data # <<>>
    /\ \E c \in NanCastOutcomes :
          rescaled' = Some(RescaleDsmGlobal(dsm_data, src_nodata, c))
    /\ UNCHANGED <<dsm_data, src_nodata>>
    /\ UNCHANGED <<blockVars, mergeVars, metaVars, chunkVars, runnerVars>>

RescaleNext == RescaleGlobal

SpecRescale == RescaleInit /\ [][RescaleNext]_vars

\* the range of the valid pixels is empty or a single value
DegenerateRange ==
    LET valid == ValidData(dsm_data, src_nodata)
    IN  valid = {} \/ \A u, v \in valid : u = v

\* C6: when the valid pixels have max > min, the result has the raster's shape,
\* every pixel at the valid minimum is 0, every pixel at the valid maximum is
\* 65535, every nodata pixel is 0, every value is in 0..65535, and the nodata
\* sentinel comes back unchanged.
C6_RescaleEndpoints ==
    (rescaled # None /\ ~DegenerateRange) =>
        LET out == rescaled[1].scaled_dsm
            valid == ValidData(dsm_data, src_nodata)
        IN  /\ DOMAIN out = DOMAIN dsm_data
            /\ rescaled[1].nodata_value = src_nodata
            /\ \A i \in DOMAIN dsm_data :
                  /\ out[i] \in 0..65535
                  /\ (src_nodata # None /\ dsm_data[i] = src_nodata[1]) => out[i] = 0
                  /\ (dsm_data[i] \in valid /\ \A v \in valid : dsm_data[i] <= v) => out[i] = 0
                  /\ (dsm_data[i] \in valid /\ \A v \in valid : dsm_data[i] >= v) => out[i] = 65535

\* a raster with a nodata pixel, its lowest and its highest valid pixel has
\* been rescaled
C6_Witness ==
    /\ rescaled # None
    /\ dsm_data = <<-9999, 0, 2>>
    /\ src_nodata = Some(-9999)
    /\ rescaled[1].scaled_dsm = <<0, 0, 65535>>

\* C7: a raster whose valid maximum equals its valid minimum, or which has no
\* valid pixel, makes rescale_dsm_global fail with DegenerateRangeError and
\* return no buffer.
C7_DegenerateRangeFails ==
    (rescaled # None /\ DegenerateRange) =>
        /\ rescaled[1].raised = Some("DegenerateRangeError")
        /\ rescaled[1].scaled_dsm = None

\* the valid pixels of the raster that was rescaled
ValidPixels == {i \in DOMAIN dsm_data : IsValid(dsm_data[i], src_nodata)}

\* a pixel's value is no lower than another's wherever its elevation is
MonotonicScaling ==
    \A i, j \in ValidPixels :
        dsm_data[i] <= dsm_data[j] =>
            rescaled[1].scaled_dsm[i] <= rescaled[1].scaled_dsm[j]

\* C13: when max > min, every valid pixel v becomes (v - min) * 65535 /
\* (max - min) rounded to the nearest integer, so that the result is within
\* 1/2 of the exact quotient, and the mapping is monotonic non-decreasing.
C13_RoundsToNearest ==
    (rescaled # None /\ ~DegenerateRange) =>
        LET valid == ValidData(dsm_data, src_nodata)
            lo == SetMin(valid)
            hi == SetMax(valid)
        IN  /\ \A i \in ValidPixels :
                  2 * Abs(rescaled[1].scaled_dsm[i] * (hi - lo)
                          - (dsm_data[i] - lo) * 65535) <= hi - lo
            /\ MonotonicScaling

\* what the code does instead: when max > min, every valid pixel v becomes the
\* whole part of (v - min) * 65535 / (max - min), the fraction being cut off
\* and not rounded, so that the result is at most the exact quotient and less
\* than 1 below it, and the mapping is monotonic non-decreasing.
C13_TruncatesTowardZero ==
    (rescaled # None /\ ~DegenerateRange) =>
        LET valid == ValidData(dsm_data, src_nodata)
            lo == SetMin(valid)
            hi == SetMax(valid)
        IN  /\ \A i \in ValidPixels :
                  /\ rescaled[1].scaled_dsm[i] * (hi - lo) <= (dsm_data[i] - lo) * 65535
                  /\ (dsm_data[i] - lo) * 65535 < (rescaled[1].scaled_dsm[i] + 1) * (hi - lo)
            /\ MonotonicScaling

(***************************************************************************)
(* merge_rasters                                                           *)
(***************************************************************************)

Range(f) == {f[k] : k \in DOMAIN f}

CoordinateSystems == {"EPSG:25830", "EPSG:4326"}

\* The files merge_rasters may be given: one row of pixels of resolution 1
\* each, anywhere in the columns 0..MaxWidth.
InputFiles ==
    {[crs |-> c, bounds |-> Bounds(e[1], 0, e[2], 1), res |-> <<1, 1>>,
      dtype |-> "float32", nodata |-> None] :
        c \in CoordinateSystems, e \in Footprints(MaxWidth)}

\* line 135: the handle rasterio.open(f) returns for the k-th file
FileHandle(k) == [kind |-> "file", index |-> k]
\* line 38: the handle memfile.open() returns for the k-th source
MemoryHandle(k) == [kind |-> "memory", index |-> k]

\* the dataset behind a handle: the file's, in target_crs if it was reprojected
\* (lines 18-38: same size and transform, crs = target_crs)
DatasetOf(handle, flist, target_crs) ==
    [flist[handle.index] EXCEPT !.crs = IF handle.kind = "memory" THEN target_crs ELSE @]

\* the columns of the output grid a dataset's bounds cover
CoveredColumns(ds, meta) ==
    <<FloorFrac(FracDiv(Frac(ds.bounds.left - meta.bounds[1], 1), meta.res)),
      CeilFrac(FracDiv(Frac(ds.bounds.right - meta.bounds[1], 1), meta.res))>>

\* merge_rasters called with a list of files
MergeInit ==
    /\ MetaIdle /\ RescaleIdle /\ ChunksIdle /\ RunnerIdle
    /\ \E n \in 0..MaxSrc : file_list \in [1..n -> InputFiles]
    /\ src_paths = <<>>
    /\ reprojected = <<>>
    /\ open_handles = {}
    /\ mpc = "open"
    /\ merge_error = None
    /\ src_datasets = <<>>
    /\ metadata = [height |-> 0, width |-> 0]
    /\ num_bands = DSM_BANDS
    /\ block_size \in 1..MaxBlock
    /\ nodata_value = 0
    /\ y_off = 0
    /\ x_off = 0
    /\ dst = <<>>
    /\ windows = <<>>
    /\ block_counter = 0
    /\ wpc = "idle"

\* line 135: the next file is opened
MergeOpenFile ==
    /\ mpc = "open"
    /\ Len(src_paths) < Len(file_list)
    /\ LET handle == FileHandle(Len(src_paths) + 1)
       IN  /\ src_paths' = Append(src_paths, handle)
           /\ open_handles' = open_handles \cup {handle}
    /\ UNCHANGED <<file_list, reprojected, mpc, merge_error>>
    /\ UNCHANGED <<blockVars, metaVars, rescaleVars, chunkVars, runnerVars>>

\* line 135: rasterio.open raises on the next file
MergeOpenFails ==
    /\ mpc = "open"
    /\ Len(src_paths) < Len(file_list)
    /\ mpc' = "raised"
    /\ merge_error' = Some("IOFailure")
    /\ UNCHANGED <<file_list, src_paths, reprojected, open_handles>>
    /\ UNCHANGED <<blockVars, metaVars, rescaleVars, chunkVars, runnerVars>>

\* line 136: target_crs=src_paths[0].crs, an IndexError on an empty list
MergeTargetCrs ==
    /\ mpc = "open"
    /\ Len(src_paths) = Len(file_list)
    /\ IF src_paths = <<>>
          THEN /\ mpc' = "raised"
               /\ merge_error' = Some("IndexError")
          ELSE /\ mpc' = "reproject"
               /\ merge_error' = merge_error
    /\ UNCHANGED <<file_list, src_paths, reprojected, open_handles>>
    /\ UNCHANGED <<blockVars, metaVars, rescaleVars, chunkVars, runnerVars>>

\* lines 16-40: one iteration of reproject_rasters_to_crs; a source in another
\* crs is copied into a MemoryFile whose dataset is opened and appended, and the
\* source itself is left as it is
MergeReprojectSource ==
    /\ mpc = "reproject"
    /\ Len(reprojected) < Len(src_paths)
    /\ LET k == Len(reprojected) + 1
       IN  IF file_list[k].crs # file_list[1].crs
              THEN /\ reprojected' = Append(reprojected, MemoryHandle(k))
                   /\ open_handles' = open_handles \cup {MemoryHandle(k)}
              ELSE /\ reprojected' = Append(reprojected, src_paths[k])
                   /\ open_handles' = open_handles
    /\ UNCHANGED <<file_list, src_paths, mpc, merge_error>>
    /\ UNCHANGED <<blockVars, metaVars, rescaleVars, chunkVars, runnerVars>>

\* lines 28-37: reproject raises while a source is copied
MergeReprojectFails ==
    /\ mpc = "reproject"
    /\ Len(reprojected) < Len(src_paths)
    /\ file_list[Len(reprojected) + 1].crs # file_list[1].crs
    /\ mpc' = "raised"
    /\ merge_error' = Some("ReprojectionFailure")
    /\ UNCHANGED <<file_list, src_paths, reprojected, open_handles>>
    /\ UNCHANGED <<blockVars, metaVars, rescaleVars, chunkVars, runnerVars>>

\* lines 138-139: compute_merge_metadata, then write_raster_blocks is entered
MergeComputeMetadata ==
    /\ mpc = "reproject"
    /\ Len(reprojected) = Len(src_paths)
    /\ LET datasets == [k \in DOMAIN reprojected |->
                           DatasetOf(reprojected[k], file_list, file_list[1].crs)]
           meta == ComputeMergeMetadata(datasets, scale_factor)
       IN  /\ metadata' = meta
           /\ src_datasets' =
                 [k \in DOMAIN datasets |->
                     [id |-> k, nodata |-> datasets[k].nodata,
                      lo |-> CoveredColumns(datasets[k], meta)[1],
                      hi |-> CoveredColumns(datasets[k], meta)[2],
                      crs |-> datasets[k].crs, bounds |-> datasets[k].bounds]]
    /\ mpc' = "write"
    /\ wpc' = "init"
    /\ UNCHANGED <<num_bands, block_size, nodata_value, y_off, x_off, dst, windows,
                   block_counter>>
    /\ UNCHANGED <<file_list, src_paths, reprojected, open_handles, merge_error>>
    /\ UNCHANGED <<metaVars, rescaleVars, chunkVars, runnerVars>>

\* lines 108-122: reproject or dst.write raises in some block; the with
\* statement closes the output and the exception leaves merge_rasters
MergeWriteFails ==
    /\ mpc = "write"
    /\ wpc = "blocks"
    /\ y_off < metadata.height
    /\ \E e \in {"ReprojectionFailure", "IOFailure"} : merge_error' = Some(e)
    /\ mpc' = "raised"
    /\ wpc' = "raised"
    /\ UNCHANGED <<src_datasets, metadata, num_bands, block_size, nodata_value,
                   y_off, x_off, dst, windows, block_counter>>
    /\ UNCHANGED <<file_list, src_paths, reprojected, open_handles>>
    /\ UNCHANGED <<metaVars, rescaleVars, chunkVars, runnerVars>>

\* lines 141-143: every dataset of src_datasets is closed and the path returned
MergeCloseSources ==
    /\ mpc = "write"
    /\ wpc = "returned"
    /\ open_handles' = open_handles \ Range(reprojected)
    /\ mpc' = "returned"
    /\ UNCHANGED <<file_list, src_paths, reprojected, merge_error>>
    /\ UNCHANGED <<blockVars, metaVars, rescaleVars, chunkVars, runnerVars>>

MergeNext ==
    \/ MergeOpenFile \/ MergeOpenFails \/ MergeTargetCrs
    \/ MergeReprojectSource \/ MergeReprojectFails \/ MergeComputeMetadata
    \/ OpenOutput \/ WriteBlock \/ ReturnOutput
    \/ MergeWriteFails \/ MergeCloseSources

SpecMerge == MergeInit /\ [][MergeNext]_vars

\* C5: once merge_rasters has ended, by returning or by raising, no dataset
\* handle it opened is still open.
C5_AllSourcesClosed ==
    mpc \in {"returned", "raised"} => open_handles = {}

\* the same on the returning path alone: a source that was reprojected stays open
C5_ClosedOnReturn ==
    mpc = "returned" => open_handles = {}

\* C11: merge_rasters given an empty list of files ends by raising
\* InvalidInputError, the error kept for an empty input, and has not opened
\* or written any output raster.
C11_EmptyInputFails ==
    (file_list = <<>> /\ mpc \in {"returned", "raised"}) =>
        /\ mpc = "raised"
        /\ merge_error = Some("InvalidInputError")
        /\ wpc = "idle"
        /\ dst = <<>>
        /\ windows = <<>>

\* the part of it the code does: the call raises and no output is created
C11_EmptyInputRaises ==
    (file_list = <<>> /\ mpc \in {"returned", "raised"}) =>
        /\ mpc = "raised"
        /\ merge_error = Some("IndexError")
        /\ wpc = "idle"
        /\ dst = <<>>
        /\ windows = <<>>

(***************************************************************************)
(* generate_chunks                                                         *)
(***************************************************************************)

MaxExtent == 2    \* a mosaic is 1..MaxExtent units wide and high
MaxGrid == 2      \* n_rows and n_cols are in 1..MaxGrid

FracAdd(p, q) == Frac(p[1] * q[2] + q[1] * p[2], p[2] * q[2])
FracSub(p, q) == Frac(p[1] * q[2] - q[1] * p[2], p[2] * q[2])
FracMul(p, q) == Frac(p[1] * q[1], p[2] * q[2])
FracLess(p, q) == p[1] * q[2] < q[1] * p[2]
\* int(x): towards zero
IntFrac(q) == IF q[1] >= 0 THEN q[1] \div q[2] ELSE -((-q[1]) \div q[2])

\* f"{n:03d}": the decimal digits of n, zero-padded on the left to 3 characters
DigitChars == <<"0", "1", "2", "3", "4", "5", "6", "7", "8", "9">>
RECURSIVE Digits(_)
Digits(n) == IF n < 10 THEN <<DigitChars[n + 1]>>
             ELSE Append(Digits(n \div 10), DigitChars[(n % 10) + 1])
RECURSIVE PadLeft(_, _)
PadLeft(chars, width) == IF Len(chars) >= width THEN chars
                         ELSE PadLeft(<<"0">> \o chars, width)
Pad3(n) == PadLeft(Digits(n), 3)

\* lines 104-105: the two file names of a cell
\* (an elevation name without its column, a faulty variant)
DsmNameRowOnly(r, c) ==
    <<"d", "s", "m", "_", "r">> \o Pad3(r) \o <<"_", "c">> \o Pad3(0) \o <<".", "p", "n", "g">>
DsmName(r, c) ==
    <<"d", "s", "m", "_", "r">> \o Pad3(r) \o <<"_", "c">> \o Pad3(c) \o <<".", "p", "n", "g">>
SatelliteName(r, c) ==
    <<"s", "a", "t", "e", "l", "l", "i", "t", "e", "_", "r">> \o Pad3(r)
        \o <<"_", "c">> \o Pad3(c) \o <<".", "p", "n", "g">>

\* lines 74-77: the common bounding box
CommonLeft(d, sat) == Max(d.bounds.left, sat.bounds.left)
CommonRight(d, sat) == Min(d.bounds.right, sat.bounds.right)
CommonBottom(d, sat) == Max(d.bounds.bottom, sat.bounds.bottom)
CommonTop(d, sat) == Min(d.bounds.top, sat.bounds.top)

\* lines 79-80
ChunkWidth(d, sat, cols) == Frac(CommonRight(d, sat) - CommonLeft(d, sat), cols)
ChunkHeight(d, sat, rows) == Frac(CommonTop(d, sat) - CommonBottom(d, sat), rows)

\* line 86: chunk_bottom = bottom + row * chunk_height
\* (rows counted down from the top, a variant the code does not implement)
ChunkBottomFromTop(d, sat, rows, r) ==
    FracSub(Frac(CommonTop(d, sat), 1),
            FracMul(Frac(r + 1, 1), ChunkHeight(d, sat, rows)))
ChunkBottom(d, sat, rows, r) ==
    FracAdd(Frac(CommonBottom(d, sat), 1),
            FracMul(Frac(r, 1), ChunkHeight(d, sat, rows)))

\* lines 84-87: the geographic cell of (r, c)
GeoCell(d, sat, rows, cols, r, c) ==
    LET chunk_left == FracAdd(Frac(CommonLeft(d, sat), 1),
                              FracMul(Frac(c, 1), ChunkWidth(d, sat, cols)))
        chunk_bottom == ChunkBottom(d, sat, rows, r)
    IN  [left |-> chunk_left,
         right |-> FracAdd(chunk_left, ChunkWidth(d, sat, cols)),
         bottom |-> chunk_bottom,
         top |-> FracAdd(chunk_bottom, ChunkHeight(d, sat, rows))]

\* line 90: dsm.window(left, bottom, right, top), in pixels of size res, from
\* the raster's top left corner
RasterWindow(raster, cell) ==
    LET res == Frac(raster.res, 1)
    IN  [row_off |-> FracDiv(FracSub(Frac(raster.bounds.top, 1), cell.top), res),
         col_off |-> FracDiv(FracSub(cell.left, Frac(raster.bounds.left, 1)), res),
         height |-> FracDiv(FracSub(cell.top, cell.bottom), res),
         width |-> FracDiv(FracSub(cell.right, cell.left), res)]

\* lines 94-97: the slice of scaled_dsm, a sequence of rows
CropRows(win) == (IntFrac(win.row_off) + 1) .. IntFrac(FracAdd(win.row_off, win.height))
CropCols(win) == (IntFrac(win.col_off) + 1) .. IntFrac(FracAdd(win.col_off, win.width))
PixelAt(raster, buffer, r, c) == buffer[(r - 1) * raster.width + c]
Crop(raster, buffer, win) ==
    LET rs == CropRows(win) \cap 1..raster.height
        cs == CropCols(win) \cap 1..raster.width
    IN  [shape |-> <<Cardinality(rs), Cardinality(cs)>>,
         pixels |-> [q \in rs \X cs |-> PixelAt(raster, buffer, q[1], q[2])]]

\* lines 39-40: np.where(dsm_chunk != nodata_value, dsm_chunk, 0) as uint16
SaveDsmChunkPng(chunk, nodata) ==
    [shape |-> chunk.shape,
     pixels |-> [q \in DOMAIN chunk.pixels |->
                    IF IsValid(chunk.pixels[q], nodata) THEN chunk.pixels[q] ELSE 0]]

\* line 70
\* (no comparison at all, a faulty variant)
CrsNeverMismatch(d, sat) == FALSE
CrsMismatch(d, sat) == d.crs # sat.crs

\* The elevation mosaic: resolution 1, its lower left corner at the origin;
\* its pixels are 0, 1, 2, ... in row-major order from the top left, one of
\* them possibly holding the nodata sentinel.
DsmRasters ==
    {[crs |-> "EPSG:25830", bounds |-> Bounds(0, 0, w, h), res |-> 1,
      width |-> w, height |-> h, nodata |-> nd,
      data |-> [i \in 1..(w * h) |-> IF i = hole /\ nd # None THEN nd[1] ELSE i - 1]] :
        w \in 1..MaxExtent, h \in 1..MaxExtent, nd \in {None, Some(-9999), Some(UINT16_MAX)},
        hole \in {0, 1}}

\* The color mosaic: the size of the elevation mosaic, at the same place or one
\* unit to the right or above.
SatelliteRasters(d) ==
    {[crs |-> c, res |-> 1, nodata |-> Some(0),
      bounds |-> Bounds(dx, dy, dx + d.width, dy + d.height)] :
        c \in CoordinateSystems, dx \in {0, 1}, dy \in {0, 1}}

\* generate_chunks called with two mosaics and a grid shape
ChunksInit ==
    /\ BlocksIdle /\ MergeIdle /\ MetaIdle /\ RescaleIdle /\ RunnerIdle
    /\ dsm \in DsmRasters
    /\ satellite \in SatelliteRasters(dsm)
    /\ n_rows \in 1..MaxGrid
    /\ n_cols \in 1..MaxGrid
    /\ row = 0
    /\ col = 0
    /\ scaled_dsm = None
    /\ dsm_nodata = None
    /\ cells = <<>>
    /\ files = <<>>
    /\ io_log = <<>>
    /\ gpc = "start"
    /\ chunk_error = None

\* line 64: os.makedirs(output_folder, exist_ok=True)
ChunksMakeDirs ==
    /\ gpc = "start"
    /\ io_log' = Append(io_log, "makedirs")
    /\ gpc' = "rescale"
    /\ UNCHANGED <<dsm, satellite, n_rows, n_cols, row, col, scaled_dsm, dsm_nodata,
                   cells, files, chunk_error>>
    /\ UNCHANGED <<blockVars, mergeVars, metaVars, rescaleVars, runnerVars>>

\* line 67: rescale_dsm_global reads the whole band and rescales it
ChunksRescale ==
    /\ gpc = "rescale"
    /\ \E c \in NanCastOutcomes :
          LET result == RescaleDsmGlobal(dsm.data, dsm.nodata, c)
          IN  /\ scaled_dsm' = result.scaled_dsm
              /\ dsm_nodata' = result.nodata_value
    /\ io_log' = io_log \o <<"open_dsm", "read_dsm_pixels">>
    /\ gpc' = "open"
    /\ UNCHANGED <<dsm, satellite, n_rows, n_cols, row, col, cells, files, chunk_error>>
    /\ UNCHANGED <<blockVars, mergeVars, metaVars, rescaleVars, runnerVars>>

\* lines 69-71: both mosaics are opened and their coordinate systems compared
ChunksOpenAndCheck ==
    /\ gpc = "open"
    /\ io_log' = io_log \o <<"open_dsm", "open_satellite">>
    /\ IF CrsMismatch(dsm, satellite)
          THEN /\ gpc' = "raised"
               /\ chunk_error' = Some("CoordinateSystemMismatch")
          ELSE /\ gpc' = "cells"
               /\ chunk_error' = chunk_error
    /\ UNCHANGED <<dsm, satellite, n_rows, n_cols, row, col, scaled_dsm, dsm_nodata,
                   cells, files>>
    /\ UNCHANGED <<blockVars, mergeVars, metaVars, rescaleVars, runnerVars>>

\* lines 83-109: one cell of the grid.  The elevation tile is cropped from
\* scaled_dsm and saved, then the color tile is read and saved (its pixels are
\* not modelled).  The image encoder refuses an empty elevation tile.
ChunksProcessCell ==
    /\ gpc = "cells"
    /\ row < n_rows
    /\ LET cell == GeoCell(dsm, satellite, n_rows, n_cols, row, col)
           dsm_window == RasterWindow(dsm, cell)
           dsm_chunk == Crop(dsm, scaled_dsm, dsm_window)
       IN  /\ cells' = [q \in (DOMAIN cells) \cup {<<row, col>>} |->
                            IF q = <<row, col>> THEN cell ELSE cells[q]]
           /\ io_log' = Append(io_log, "read_satellite_pixels")
           /\ IF dsm_chunk.shape[1] = 0 \/ dsm_chunk.shape[2] = 0
                 THEN /\ gpc' = "raised"
                      /\ chunk_error' = Some("IOFailure")
                      /\ UNCHANGED <<files, row, col>>
                 ELSE /\ files' = files \o
                            <<[name |-> DsmName(row, col),
                               image |-> SaveDsmChunkPng(dsm_chunk, dsm_nodata)],
                              [name |-> SatelliteName(row, col), image |-> None]>>
                      /\ IF col + 1 < n_cols
                            THEN /\ col' = col + 1
                                 /\ row' = row
                            ELSE /\ col' = 0
                                 /\ row' = row + 1
                      /\ UNCHANGED <<gpc, chunk_error>>
    /\ UNCHANGED <<dsm, satellite, n_rows, n_cols, scaled_dsm, dsm_nodata>>
    /\ UNCHANGED <<blockVars, mergeVars, metaVars, rescaleVars, runnerVars>>

\* lines 111-112: the loops are over
ChunksReturn ==
    /\ gpc = "cells"
    /\ row >= n_rows
    /\ gpc' = "returned"
    /\ UNCHANGED <<dsm, satellite, n_rows, n_cols, row, col, scaled_dsm, dsm_nodata,
                   cells, files, io_log, chunk_error>>
    /\ UNCHANGED <<blockVars, mergeVars, metaVars, rescaleVars, runnerVars>>

ChunksNext ==
    \/ ChunksMakeDirs \/ ChunksRescale \/ ChunksOpenAndCheck
    \/ ChunksProcessCell \/ ChunksReturn

SpecChunks == ChunksInit /\ [][ChunksNext]_vars

(***************************************************************************)
(* The consumer's reading of a tile's file name                            *)
(* (scripts/import_chunks_blender.py)                                      *)
(***************************************************************************)

\* str.split(sep): the pieces of chars between the occurrences of sep
RECURSIVE SplitFrom(_, _, _, _)
SplitFrom(chars, sep, k, piece) ==
    IF k > Len(chars) THEN <<piece>>
    ELSE IF chars[k] = sep THEN <<piece>> \o SplitFrom(chars, sep, k + 1, <<>>)
    ELSE SplitFrom(chars, sep, k + 1, Append(piece, chars[k]))
Split(chars, sep) == SplitFrom(chars, sep, 1, <<>>)

\* lines 13-14: f.startswith(prefix)
StartsWith(chars, prefix) ==
    Len(chars) >= Len(prefix) /\ SubSeq(chars, 1, Len(prefix)) = prefix

\* lines 21 and 25: f.split("_")[1] + "_" + f.split("_")[2].split(".")[0]
TileKey(name) ==
    Split(name, "_")[2] \o <<"_">> \o Split(Split(name, "_")[3], ".")[1]

\* int(s) of a string of decimal digits
DigitValue(ch) == (CHOOSE d \in 1..10 : DigitChars[d] = ch) - 1
RECURSIVE ParseInt(_)
ParseInt(chars) ==
    IF Len(chars) = 1 THEN DigitValue(chars[1])
    ELSE 10 * ParseInt(SubSeq(chars, 1, Len(chars) - 1)) + DigitValue(chars[Len(chars)])

\* lines 58-60: row, col = key.split("_"); int(row[1:]), int(col[1:])
KeyRowCol(key) ==
    LET parts == Split(key, "_")
    IN  <<ParseInt(Tail(parts[1])), ParseInt(Tail(parts[2]))>>

(***************************************************************************)
(* Claims about generate_chunks                                            *)
(***************************************************************************)

GridCells == (0..(n_rows - 1)) \X (0..(n_cols - 1))

\* the writes of a file of that kind whose name reads as the cell q
WritesOf(prefix, q) ==
    {i \in DOMAIN files :
        StartsWith(files[i].name, prefix) /\ KeyRowCol(TileKey(files[i].name)) = q}

ElevationPrefix == <<"d", "s", "m">>
ColorPrefix == <<"s", "a", "t", "e", "l", "l", "i", "t", "e">>

\* indices on both sides of every change of the number of digits
PadSamples == (0..12) \cup (98..101) \cup (998..1001)

\* C2: when generate_chunks has returned, every cell of the grid has exactly
\* one elevation file and exactly one color file, whose names carry the same
\* key r<row>_c<col> with row and col zero-padded to three digits, and every
\* file written is one of these: n_rows * n_cols of each kind.  The names of
\* larger grids keep cells apart too: the names of a cell read back as the cell.
C2_OneTilePairPerCell ==
    gpc = "returned" =>
        /\ \A r \in PadSamples :
              /\ KeyRowCol(TileKey(DsmName(r, 1001 - r))) = <<r, 1001 - r>>
              /\ KeyRowCol(TileKey(SatelliteName(r, 1001 - r))) = <<r, 1001 - r>>
        /\ Len(files) = 2 * n_rows * n_cols
        /\ \A q \in GridCells :
              /\ Cardinality(WritesOf(ElevationPrefix, q)) = 1
              /\ Cardinality(WritesOf(ColorPrefix, q)) = 1
              /\ \A i \in WritesOf(ElevationPrefix, q), j \in WritesOf(ColorPrefix, q) :
                    /\ TileKey(files[i].name) = TileKey(files[j].name)
                    /\ TileKey(files[i].name) =
                          <<"r">> \o Pad3(q[1]) \o <<"_", "c">> \o Pad3(q[2])
                    /\ Len(Pad3(q[1])) = 3 /\ Len(Pad3(q[2])) = 3
        /\ \A i \in DOMAIN files :
              /\ StartsWith(files[i].name, ElevationPrefix)
                    \/ StartsWith(files[i].name, ColorPrefix)
              /\ KeyRowCol(TileKey(files[i].name)) \in GridCells

\* a grid of several rows and columns has been exported
C2_Witness ==
    /\ gpc = "returned"
    /\ n_rows = 2
    /\ n_cols = 2
    /\ Len(files) = 8
    /\ files[8].name = SatelliteName(1, 1)

\* C3: when the two mosaics' coordinate systems differ, no tile file is ever
\* written, and once the coordinate systems have been compared generate_chunks
\* has ended with the coordinate-system-mismatch error.
C3_MismatchWritesNothing ==
    dsm.crs # satellite.crs =>
        /\ files = <<>>
        /\ gpc \notin {"start", "rescale", "open"} =>
              gpc = "raised" /\ chunk_error = Some("CoordinateSystemMismatch")

\* generate_chunks has failed on two mosaics of different coordinate systems
C3_Witness ==
    /\ dsm.crs # satellite.crs
    /\ gpc = "raised"
    /\ chunk_error = Some("CoordinateSystemMismatch")
    /\ files = <<>>

\* C4: when generate_chunks fails on a coordinate-system mismatch, nothing has
\* been created on disk and no pixel has been read before.
C4_MismatchBeforeAnyIO ==
    chunk_error = Some("CoordinateSystemMismatch") =>
        \A i \in DOMAIN io_log : io_log[i] \notin {"makedirs", "read_dsm_pixels"}

\* the common bounding box has a positive height
PositiveHeight == CommonBottom(dsm, satellite) < CommonTop(dsm, satellite)

\* C8, as claimed: row 0 is the topmost row (its top edge is the box's top),
\* and a row of smaller index lies at strictly greater y.
C8_RowZeroOnTop ==
    \A q \in DOMAIN cells :
        /\ q[1] = 0 => cells[q].top = Frac(CommonTop(dsm, satellite), 1)
        /\ \A p \in DOMAIN cells :
              q[1] < p[1] => /\ FracLess(cells[p].bottom, cells[q].bottom)
                             /\ FracLess(cells[p].top, cells[q].top)

\* C8, amended: when the common bounding box has a positive height, row 0 is
\* the bottommost row (its bottom edge is the box's bottom), and a row of
\* smaller index lies at strictly smaller y.
C8_RowZeroAtBottom ==
    PositiveHeight =>
        \A q \in DOMAIN cells :
            /\ q[1] = 0 => cells[q].bottom = Frac(CommonBottom(dsm, satellite), 1)
            /\ FracLess(cells[q].bottom, cells[q].top)
            /\ \A p \in DOMAIN cells :
                  q[1] < p[1] => /\ FracLess(cells[q].bottom, cells[p].bottom)
                                 /\ FracLess(cells[q].top, cells[p].top)

\* two rows of a grid have been exported, row 0 below row 1
C8_Witness ==
    /\ gpc = "returned"
    /\ PositiveHeight
    /\ n_rows = 2
    /\ <<0, 0>> \in DOMAIN cells
    /\ <<1, 0>> \in DOMAIN cells
    /\ cells[<<0, 0>>].top = cells[<<1, 0>>].bottom
    /\ FracLess(cells[<<0, 0>>].bottom, cells[<<1, 0>>].bottom)

\* the pixel of the elevation mosaic a pixel <<r, c>> of a tile was cropped from
SourceIndex(q) == (q[1] - 1) * dsm.width + q[2]

\* the elevation tiles written so far
ElevationTiles == {k \in DOMAIN files : StartsWith(files[k].name, ElevationPrefix)}

\* the mosaic has two different valid elevations, so that it can be rescaled
ValidRange == Cardinality(ValidData(dsm.data, dsm.nodata)) > 1

\* the tile pixels encoded as their rescaled value wherever the source is valid,
\* and changed only where the source is nodata
OnlyNodataChanged ==
    \A k \in ElevationTiles :
        \A q \in DOMAIN files[k].image.pixels :
            LET i == SourceIndex(q)
            IN  /\ IsValid(dsm.data[i], dsm.nodata) =>
                      files[k].image.pixels[q] = scaled_dsm[i]
                /\ files[k].image.pixels[q] # scaled_dsm[i] =>
                      /\ ~IsValid(dsm.data[i], dsm.nodata)
                      /\ files[k].image.pixels[q] = 0

\* C14: whatever the nodata sentinel, values inside 0..65535 included, every
\* pixel of an elevation tile that came from a valid elevation is encoded as
\* its globally rescaled value, and only pixels that were nodata in the
\* mosaic are set to 0 by the replacement.
C14_OnlyNodataChanged ==
    ValidRange => OnlyNodataChanged

\* the part of it the code does: with no sentinel, or one outside 1..65535,
\* no rescaled value can be taken for the sentinel
C14_SentinelOutOfRange ==
    (ValidRange /\ (dsm.nodata = None \/ dsm.nodata[1] \notin 1..UINT16_MAX)) =>
        OnlyNodataChanged

(***************************************************************************)
(* The pipeline runners: examples/run_example.py (main) and                *)
(* scripts/run_example.py (a module script)                                *)
(***************************************************************************)

MaxFound == 2     \* glob finds 0..MaxFound files of a category

Categories == {"dsm", "satellite"}
Runners == {"examples", "scripts"}

\* os.path.join(config.PROCESSING_DIR, config.MERGED_DSM_FILENAME), and the
\* same with MERGED_SATELLITE_FILENAME (config.py:23-24)
MergedFile(c) == IF c = "dsm" THEN "processing/dsm_merged.tif"
                 ELSE "processing/satellite_merged.tif"

\* a run is started; a mosaic of an earlier run may be in PROCESSING_DIR
RunnerInit ==
    /\ BlocksIdle /\ MergeIdle /\ MetaIdle /\ RescaleIdle /\ ChunksIdle
    /\ runner \in Runners
    /\ found \in [Categories -> 0..MaxFound]
    /\ merged_path = [c \in Categories |-> None]
    /\ on_disk \in SUBSET Categories
    /\ produced = {}
    /\ run_log = <<>>
    /\ rpc = "collect"
    /\ run_error = None

\* the category of the merge stage the run is at, and the stage after it
StageCategory == IF rpc = "merge_dsm" THEN "dsm" ELSE "satellite"
StageAfter == IF rpc = "merge_dsm" THEN "merge_satellite" ELSE "chunks"

Stage(name, c) == [stage |-> name, category |-> c]

\* examples lines 13-17, scripts lines 7-8: the two globs; main() also binds
\* both merged paths before it looks at what was found
RunnerCollect ==
    /\ rpc = "collect"
    /\ merged_path' = IF runner = "examples"
                         THEN [c \in Categories |-> Some(MergedFile(c))]
                         ELSE merged_path
    /\ rpc' = "merge_dsm"
    /\ UNCHANGED <<runner, found, on_disk, produced, run_log, run_error>>
    /\ UNCHANGED <<blockVars, mergeVars, metaVars, rescaleVars, chunkVars>>

\* examples lines 20-23 and 28-36, scripts lines 11-13 and 16-23: files were
\* found, the path is bound and merge_rasters writes the mosaic
RunnerMerge ==
    /\ rpc \in {"merge_dsm", "merge_satellite"}
    /\ found[StageCategory] > 0
    /\ merged_path' = [merged_path EXCEPT ![StageCategory] = Some(MergedFile(StageCategory))]
    /\ run_log' = Append(run_log, Stage("merge", StageCategory))
    /\ produced' = produced \cup {StageCategory}
    /\ on_disk' = on_disk \cup {StageCategory}
    /\ rpc' = StageAfter
    /\ UNCHANGED <<runner, found, run_error>>
    /\ UNCHANGED <<blockVars, mergeVars, metaVars, rescaleVars, chunkVars>>

\* the same call, merge_rasters raising: the run ends, with or without a
\* partly written mosaic
RunnerMergeFails ==
    /\ rpc \in {"merge_dsm", "merge_satellite"}
    /\ found[StageCategory] > 0
    /\ merged_path' = [merged_path EXCEPT ![StageCategory] = Some(MergedFile(StageCategory))]
    /\ run_log' = Append(run_log, Stage("merge", StageCategory))
    /\ on_disk' \in {on_disk, on_disk \cup {StageCategory}}
    /\ rpc' = "raised"
    /\ run_error' = Some("MergeFailure")
    /\ UNCHANGED <<runner, found, produced>>
    /\ UNCHANGED <<blockVars, mergeVars, metaVars, rescaleVars, chunkVars>>

\* examples lines 24-25 and 37-38, and the missing else of scripts lines 11
\* and 16: no file was found and the merge is not run
RunnerSkipMerge ==
    /\ rpc \in {"merge_dsm", "merge_satellite"}
    /\ found[StageCategory] = 0
    /\ run_log' = Append(run_log, Stage("skip", StageCategory))
    /\ rpc' = StageAfter
    /\ UNCHANGED <<runner, found, merged_path, on_disk, produced, run_error>>
    /\ UNCHANGED <<blockVars, mergeVars, metaVars, rescaleVars, chunkVars>>

\* examples lines 41-51: generate_chunks is called if both paths are true,
\* which a non-empty string is.  scripts lines 26-32: the call's arguments
\* are evaluated, a NameError for a path no merge has bound.
RunnerStartChunks ==
    /\ rpc = "chunks"
    /\ IF \E c \in Categories : merged_path[c] = None
          THEN /\ rpc' = "raised"
               /\ run_error' = Some("NameError")
               /\ run_log' = run_log
          ELSE IF \A c \in Categories : merged_path[c][1] # ""
          THEN /\ rpc' = "chunking"
               /\ run_error' = run_error
               /\ run_log' = Append(run_log, Stage("generate_chunks", "both"))
          ELSE /\ rpc' = "done"
               /\ run_error' = run_error
               /\ run_log' = Append(run_log, Stage("skip", "both"))
    /\ UNCHANGED <<runner, found, merged_path, on_disk, produced>>
    /\ UNCHANGED <<blockVars, mergeVars, metaVars, rescaleVars, chunkVars>>

\* generate_chunks returns: both mosaics were there to be opened
RunnerChunksReturn ==
    /\ rpc = "chunking"
    /\ Categories \subseteq on_disk
    /\ rpc' = "done"
    /\ UNCHANGED <<runner, found, merged_path, on_disk, produced, run_log, run_error>>
    /\ UNCHANGED <<blockVars, mergeVars, metaVars, rescaleVars, chunkVars>>

\* generate_chunks raises: rasterio.open finds no file at a path
\* (export_chunks.py:16, 69), or the split itself fails
RunnerChunksFail ==
    /\ rpc = "chunking"
    /\ run_error' = IF Categories \subseteq on_disk THEN Some("ChunkFailure")
                    ELSE Some("FileNotFound")
    /\ rpc' = "raised"
    /\ UNCHANGED <<runner, found, merged_path, on_disk, produced, run_log>>
    /\ UNCHANGED <<blockVars, mergeVars, metaVars, rescaleVars, chunkVars>>

RunnerNext ==
    \/ RunnerCollect \/ RunnerMerge \/ RunnerMergeFails \/ RunnerSkipMerge
    \/ RunnerStartChunks \/ RunnerChunksReturn \/ RunnerChunksFail

SpecRunner == RunnerInit /\ [][RunnerNext]_vars

\* C12: when no file of a category was found, no merge is run for that
\* category, chunk generation is not started on a mosaic of that category
\* which this run did not produce, and the run does not end in the error of
\* a missing path or a missing mosaic.
C12_MissingCategorySkipped ==
    \A c \in Categories :
        (rpc # "collect" /\ found[c] = 0) =>
            /\ Stage("merge", c) \notin Range(run_log)
            /\ Stage("generate_chunks", "both") \in Range(run_log) => c \in produced
            /\ rpc = "raised" => run_error \notin {Some("NameError"), Some("FileNotFound")}

\* the part of it the code does: the merge of that category is not run
C12_MergeSkipped ==
    \A c \in Categories :
        (rpc # "collect" /\ found[c] = 0) =>
            /\ Stage("merge", c) \notin Range(run_log)
            /\ c \notin produced

====
